---- MODULE Spec2Model ----
(***************************************************************************)
(* The outline-generation pipeline of the Landing Page Outline Generator:  *)
(* get_search_results, LLMEnhancedAnalyzer (src/lg.py) and the two entry   *)
(* points that drive it, main of src/app.py (the Streamlit page, which     *)
(* ends by calling display_enhanced_outline / safe_split) and main of      *)
(* src/lg.py (the batch flow, which ends by writing the outline to a file).*)
(*                                                                         *)
(* Text is a sequence of tokens.  A token is a word that holds no          *)
(* delimiter phrase inside it ("x", "END"), a delimiter phrase ("FAQ",     *)
(* "faq", "Meta title"), the colon ":", a whitespace character (" ",       *)
(* "\n") or the asterisk "*".  Offsets are 0-based, as in Python.          *)
(***************************************************************************)
EXTENDS Integers, Sequences, FiniteSets, TLC

VARIABLES
    entry,        \* which main runs: "app" (src/app.py) or "cli" (src/lg.py)
    pc,           \* position of main
    attempt,      \* loop variable `attempt` of the retry loop being run
    serp_data,    \* value returned by get_search_results
    urls,         \* urls_to_scrape
    idx,          \* 1-based position in urls of the URL being scraped
    scraped,      \* scraped_content
    aspect,       \* 1-based position in prompts of the aspect to analyse next
    analysis,     \* the dict `analysis` of analyze_with_llm (llm_insights)
    outline,      \* enhanced_outline
    shown,        \* sections rendered by display_enhanced_outline, in order
    saved,        \* whether the batch flow wrote the outline file
    result,       \* "running", "document" or "failure"
    error,        \* the error message shown to the user ("" when none)
    exc,          \* the exception travelling to main's handler ("" when none)
    trace         \* provider calls, sleeps and stage entries, in order

vars == <<entry, pc, attempt, serp_data, urls, idx, scraped, aspect, analysis,
          outline, shown, saved, result, error, exc, trace>>

----------------------------------------------------------------------------
(* Bounds of the model *)

\* Longest organic_results list a SERP response carries.
MaxResults == 2

\* Longest LLM response, in chunks, of the parser specification.
MaxTextLen == 3

\* Longest organic_results list of the URL-selection specification.
MaxRank == 6

----------------------------------------------------------------------------
(* Strings *)

Min(a, b) == IF a < b THEN a ELSE b

IsSpace(t) == t \in {" ", "\n"}

\* str.lower() of one token.
Lower(t) ==
    CASE t = "FAQ" -> "faq"
      [] t = "Meta title" -> "meta title"
      [] t = "Meta description" -> "meta description"
      [] t = "Meta Information" -> "meta information"
      [] t = "Slug" -> "slug"
      [] t = "Outline" -> "outline"
      [] t = "H1" -> "h1"
      [] t = "Introduction" -> "introduction"
      [] t = "Section Breakdown" -> "section breakdown"
      [] t = "Writing Guidelines" -> "writing guidelines"
      [] t = "Landing Page Format Prediction" -> "landing page format prediction"
      [] t = "Justification" -> "justification"
      [] t = "END" -> "end"
      [] OTHER -> t

RECURSIVE LStrip(_)
LStrip(s) ==
    IF s # <<>> /\ IsSpace(Head(s)) THEN LStrip(Tail(s)) ELSE s

RECURSIVE RStrip(_)
RStrip(s) ==
    IF s # <<>> /\ IsSpace(s[Len(s)]) THEN RStrip(SubSeq(s, 1, Len(s) - 1)) ELSE s

\* str.strip()
Strip(s) == RStrip(LStrip(s))

\* text[start:end]
Slice(text, start, end) == SubSeq(text, start + 1, end)

\* str.replace('**', ''): non-overlapping pairs, left to right.
RECURSIVE ReplaceDoubleStar(_)
ReplaceDoubleStar(s) ==
    IF Len(s) < 2 THEN s
    ELSE IF s[1] = "*" /\ s[2] = "*" THEN ReplaceDoubleStar(SubSeq(s, 3, Len(s)))
    ELSE <<s[1]>> \o ReplaceDoubleStar(Tail(s))

\* The text with its lone asterisks left in place.
ReplaceStarKeep(s) == s

\* str.replace('*', '')
ReplaceStar(s) == SelectSeq(s, LAMBDA t : t # "*")

\* Whether the pattern (a literal, re.IGNORECASE) matches text at offset pos.
MatchAt(pat, text, pos) ==
    /\ pos + Len(pat) <= Len(text)
    /\ \A k \in 1..Len(pat) : Lower(text[pos + k]) = Lower(pat[k])

\* pattern.search(text, pos): offset of the leftmost match at or after pos, -1
\* when there is none.
RECURSIVE Search(_, _, _)
Search(pat, text, pos) ==
    IF pos + Len(pat) > Len(text) THEN -1
    ELSE IF MatchAt(pat, text, pos) THEN pos
    ELSE Search(pat, text, pos + 1)

\* re.escape(delimiter).replace(r'\:', r'\s*:?[\s]*'): re.escape leaves ':'
\* unescaped, so the replace finds nothing and the pattern is the delimiter
\* itself, matched literally.
DelimPattern(delimiter) == delimiter

\* delimiter.replace(":", "").strip()
AltDelim(delimiter) == Strip(SelectSeq(delimiter, LAMBDA t : t # ":"))

\* The match of a delimiter in text from pos: first the exact pattern, then the
\* phrase with its colon stripped.  start = -1 when neither matches.
DelimMatch(delimiter, text, pos) ==
    LET m == Search(DelimPattern(delimiter), text, pos)
        a == Search(AltDelim(delimiter), text, pos)
    IN  IF m >= 0 THEN [start |-> m, end |-> m + Len(DelimPattern(delimiter))]
        ELSE IF a >= 0 THEN [start |-> a, end |-> a + Len(AltDelim(delimiter))]
        ELSE [start |-> -1, end |-> -1]

----------------------------------------------------------------------------
(* Section parser: src/app.py *)

\* safe_split with the unmatched end delimiter treated like an unmatched start
\* delimiter: the section is lost instead of running to the end of the text.
SafeSplitEndRequired(text, delimiter1, delimiter2) ==
    LET m1 == DelimMatch(delimiter1, text, 0)
        m2 == DelimMatch(delimiter2, text, m1.end)
    IN  IF m1.start < 0 THEN <<>>
        ELSE IF delimiter2 # <<>>
             THEN IF m2.start < 0 THEN <<>>
                  ELSE Strip(Slice(text, m1.end, m2.start))
             ELSE Strip(Slice(text, m1.end, Len(text)))

\* safe_split with the end delimiter searched from the beginning of the text
\* instead of from the end of the start delimiter.
SafeSplitEndFromBeginning(text, delimiter1, delimiter2) ==
    LET m1 == DelimMatch(delimiter1, text, 0)
        m2 == DelimMatch(delimiter2, text, 0)
    IN  IF m1.start < 0 THEN <<>>
        ELSE IF delimiter2 # <<>>
             THEN IF m2.start < 0 THEN Strip(Slice(text, m1.end, Len(text)))
                  ELSE Strip(Slice(text, m1.end, m2.start))
             ELSE Strip(Slice(text, m1.end, Len(text)))

\* safe_split returning the text between the delimiters without .strip().
SafeSplitNoStrip(text, delimiter1, delimiter2) ==
    LET m1 == DelimMatch(delimiter1, text, 0)
        m2 == DelimMatch(delimiter2, text, m1.end)
    IN  IF m1.start < 0 THEN <<>>
        ELSE IF delimiter2 # <<>>
             THEN IF m2.start < 0 THEN Slice(text, m1.end, Len(text))
                  ELSE Slice(text, m1.end, m2.start)
             ELSE Slice(text, m1.end, Len(text))

\* safe_split(text, delimiter1, delimiter2); delimiter2 = <<>> stands for None.
SafeSplit(text, delimiter1, delimiter2) ==
    LET m1 == DelimMatch(delimiter1, text, 0)
        m2 == DelimMatch(delimiter2, text, m1.end)
    IN  IF m1.start < 0 THEN <<>>
        ELSE IF delimiter2 # <<>>
             THEN IF m2.start < 0 THEN Strip(Slice(text, m1.end, Len(text)))
                  ELSE Strip(Slice(text, m1.end, m2.start))
             ELSE Strip(Slice(text, m1.end, Len(text)))

\* The dict `sections` of display_enhanced_outline, in insertion order.
Sections ==
    << [name |-> "Meta Title", start |-> <<"Meta title", ":">>,
                               end |-> <<"Meta description", ":">>],
       [name |-> "Meta Description", start |-> <<"Meta description", ":">>,
                                     end |-> <<"Slug", ":">>],
       [name |-> "Slug", start |-> <<"Slug", ":">>, end |-> <<"Outline", ":">>],
       [name |-> "H1", start |-> <<"H1", ":">>, end |-> <<"Introduction", ":">>],
       [name |-> "Introduction", start |-> <<"Introduction", ":">>,
                                 end |-> <<"Section Breakdown", ":">>],
       [name |-> "Section Breakdown", start |-> <<"Section Breakdown", ":">>,
                                      end |-> <<"FAQ", ":">>],
       [name |-> "FAQ", start |-> <<"FAQ", ":">>,
                        end |-> <<"Writing Guidelines", ":">>],
       [name |-> "Writing Guidelines", start |-> <<"Writing Guidelines", ":">>,
                        end |-> <<"Landing Page Format Prediction", ":">>],
       [name |-> "Landing Page Format",
                        start |-> <<"Landing Page Format Prediction", ":">>,
                        end |-> <<"Justification", ":">>],
       [name |-> "Justification", start |-> <<"Justification", ":">>,
                                  end |-> <<>>] >>

\* The loop of display_enhanced_outline over sections.items() from the i-th
\* section on: a section with empty content is skipped, every other one is
\* rendered under its name.
RECURSIVE DisplayFrom(_, _)
DisplayFrom(text, i) ==
    IF i > Len(Sections) THEN <<>>
    ELSE LET content == SafeSplit(text, Sections[i].start, Sections[i].end)
         IN  IF content = <<>> THEN DisplayFrom(text, i + 1)
             ELSE <<[name |-> Sections[i].name, body |-> content]>>
                  \o DisplayFrom(text, i + 1)

\* The sections rendered in the order their start delimiters lie in the text.
RECURSIVE InDocumentOrder(_, _)
InDocumentOrder(text, S) ==
    IF S = {} THEN <<>>
    ELSE LET first == CHOOSE i \in S : \A j \in S :
                          DelimMatch(Sections[i].start, text, 0).start
                              <= DelimMatch(Sections[j].start, text, 0).start
         IN  <<[name |-> Sections[first].name,
                body |-> SafeSplit(text, Sections[first].start, Sections[first].end)]>>
             \o InDocumentOrder(text, S \ {first})

DisplayInDocumentOrder(text) ==
    InDocumentOrder(text, {i \in 1..Len(Sections) :
                              SafeSplit(text, Sections[i].start, Sections[i].end) # <<>>})

\* display_enhanced_outline(enhanced_outline): the sections it renders.
DisplaySections(text) == DisplayFrom(text, 1)

----------------------------------------------------------------------------
(* Outline synthesizer: src/lg.py *)

\* Python's None and str values of get_llm_analysis.
NoneStr == [kind |-> "None", text |-> <<>>]
Str(s) == [kind |-> "str", text |-> s]

\* One prompt per aspect, as in the multi-aspect variant of the template.
PromptsPerAspect == <<"outline_structure", "faq_suggestions">>

\* The keys of the dict `prompts` of analyze_with_llm, in insertion order.
Prompts == <<"outline_structure">>

\* dict.get(key, default)
DictGet(d, key, default) == IF key \in DOMAIN d THEN d[key] ELSE default

\* The f-string of format_llm_outline around outline_content, stripped.
Envelope(content) ==
    Strip(<<"\n", "Meta Information", ":", "\n">> \o content \o <<"\n", "END", "\n">>)

\* format_llm_outline without the envelope: the cleaned LLM text alone.
FormatLlmOutlineBare(llm_insights) ==
    LET outline_content ==
            DictGet(llm_insights, "outline_structure",
                    Str(<<"No outline structure generated">>))
    IN  IF outline_content.kind = "None"
        THEN [raised |-> TRUE, value |-> <<>>]
        ELSE [raised |-> FALSE,
              value |-> Strip(ReplaceStar(ReplaceDoubleStar(outline_content.text)))]

\* format_llm_outline(llm_insights, serp_data): the outline, or raised = TRUE
\* when .replace is called on None and the handler re-raises.
FormatLlmOutline(llm_insights) ==
    LET outline_content ==
            DictGet(llm_insights, "outline_structure",
                    Str(<<"No outline structure generated">>))
    IN  IF outline_content.kind = "None"
        THEN [raised |-> TRUE, value |-> <<>>]
        ELSE [raised |-> FALSE,
              value |-> Envelope(ReplaceStar(ReplaceDoubleStar(outline_content.text)))]

----------------------------------------------------------------------------
(* Provider responses and inputs *)

\* Links an organic result can carry; the last one is on a social domain.
Links == {"a.com", "b.com", "youtube.com/w"}

\* any(domain in link.lower() for domain in ['youtube.com', ...])
IsSocial(link) == link \in {"youtube.com/w"}

RECURSIVE SeqsUpTo(_, _)
SeqsUpTo(S, n) ==
    IF n = 0 THEN {<<>>}
    ELSE LET shorter == SeqsUpTo(S, n - 1)
         IN  shorter \cup {Append(q, x) : q \in shorter, x \in S}

\* Python's None, and a dict parsed from the SERP response: nonempty = FALSE is
\* the dict {}, organic is the list under 'organic_results' ([] when absent).
NoneData == [kind |-> "None", nonempty |-> FALSE, organic |-> <<>>]
Dict(o) == [kind |-> "dict", nonempty |-> TRUE, organic |-> o]
EmptyDict == [kind |-> "dict", nonempty |-> FALSE, organic |-> <<>>]

\* bool(serp_data)
Truthy(d) == d.kind = "dict" /\ d.nonempty

\* What response.json() can be.
JsonBodies == {EmptyDict} \cup {Dict(o) : o \in SeqsUpTo(Links, MaxResults)}

\* One requests.get: HTTP 200 with a body, another status, or a
\* RequestException (connection error, timeout).
SerpOutcomes ==
    {[kind |-> "200", json |-> j] : j \in JsonBodies}
    \cup {[kind |-> "status", json |-> NoneData],
          [kind |-> "exception", json |-> NoneData]}

\* The site of the organic result at each rank, when it is not a social one.
RankLinks ==
    <<"r1.com", "r2.com", "r3.com", "r4.com", "r5.com", "r6.com", "r7.com", "r8.com">>

\* Lists of n organic results in rank order: the result at rank k links to its
\* own site or to a social domain.
RankedResults(n) ==
    {[k \in 1..n |-> IF k \in S THEN "youtube.com/w" ELSE RankLinks[k]] :
         S \in SUBSET (1..n)}

\* SERP responses with up to MaxRank organic results.
RankedBodies == {Dict(o) : o \in UNION {RankedResults(n) : n \in 0..MaxRank}}

\* One firecrawl.scrape_url: a result, or an exception.
ScrapeOutcomes == {"ok", "error"}

\* Pieces an LLM response is made of.
Chunks ==
    { <<"x">>, <<" ">>, <<":">>, <<"*">>,
      <<"FAQ", ":">>, <<"FAQ">>, <<"faq", ":">>,
      <<"Section Breakdown", ":">>, <<"Meta title", ":">>,
      <<"Meta description", ":">>, <<"Justification", ":">>,
      <<"Meta title", ":", " ", "Uber Clone App | Fast Rides">> }

RECURSIVE Flatten(_)
Flatten(ss) == IF ss = <<>> THEN <<>> ELSE Head(ss) \o Flatten(Tail(ss))

\* LLM responses of at most n chunks.
Texts(n) == {Flatten(cs) : cs \in SeqsUpTo(Chunks, n)}

\* LLM responses the pipeline specification draws from.
PipelineTexts == { <<>>, <<"*", "*", "FAQ", ":", " ", "x", "*">> }

\* One chat.completions.create: an exception (error, timeout), or a message
\* whose content is None or a string.
LlmOutcomes(texts) ==
    {[kind |-> "exception", content |-> NoneStr], [kind |-> "ok", content |-> NoneStr]}
    \cup {[kind |-> "ok", content |-> Str(t)] : t \in texts}

----------------------------------------------------------------------------
(* Events of the trace *)

Ev(op, i, a, r) == [op |-> op, idx |-> i, att |-> a, res |-> r]

\* time.sleep(secs)
Sleep(secs) == Ev("sleep", 0, 0, secs)

----------------------------------------------------------------------------
(* Retry loops: src/lg.py *)

\* max_retries of get_search_results and of scrape_competitor_content.
SerpMaxRetries == 3
ScrapeMaxRetries == 3

\* range(max_retries) taken one too far.
RetryRangeOffByOne(max_retries) == 0..max_retries

\* range(max_retries)
RetryRange(max_retries) == 0..(max_retries - 1)

\* An error dict instead of None when the retries are used up.
SerpFailureDict == Dict(<<>>)

\* The value get_search_results returns when the retries are used up.
SerpFailureValue == NoneData

\* What follows a failed requests.get inside the loop body: after a
\* RequestException that is not on the last attempt, time.sleep(2); after a
\* non-200 status, nothing.
SerpAfterFailure(kind, att) ==
    IF kind = "exception" /\ att # SerpMaxRetries - 1 THEN <<Sleep("2")>> ELSE <<>>

\* Whether the body of get_search_results' loop returns None itself.
SerpReturnsInLoop(kind, att) == kind = "exception" /\ att = SerpMaxRetries - 1

\* What follows a failed scrape inside the loop body.
ScrapeAfterFailure(att) ==
    IF att # ScrapeMaxRetries - 1 THEN <<Sleep("2")>> ELSE <<>>

\* A successful scrape whose content is never analysed.
ScrapeSuccessNoAnalysis(i, att) == <<Ev("scrape", i, att, "ok")>>

\* A successful scrape after which the retry loop does not break: the provider
\* is called once more for the same URL.
ScrapeSuccessNoBreak(i, att) ==
    <<Ev("scrape", i, att, "ok"), Ev("analyze", i, att, ""),
      Ev("scrape", i, att + 1, "ok"), Ev("analyze", i, att + 1, "")>>

\* A successful scrape_url followed by analyze_content on its content.
ScrapeSuccess(i, att) == <<Ev("scrape", i, att, "ok"), Ev("analyze", i, att, "")>>

\* scraped_content.insert(0, content_data)
PrependEntry(list, content_data) == <<content_data>> \o list

\* scraped_content.append(content_data)
AppendEntry(list, content_data) == Append(list, content_data)

\* The URL loop given up when one URL uses up its retries.
NextUrlAbortOnExhaustion(i, n, exhausted) == IF exhausted THEN n + 1 ELSE i + 1

\* The position the `for url in urls` loop goes to after URL i of n, whether
\* its retry loop ended by break or by exhaustion.
NextUrl(i, n, exhausted) == i + 1

\* The first 5 organic results, in rank order.
TopN == 5

\* urls_to_scrape with the filter applied before the slice: the first 5
\* results that are not on a social domain.
UrlsToScrapeFilterFirst(e, data) ==
    LET kept == IF e = "app" THEN SelectSeq(data.organic, LAMBDA l : ~IsSocial(l))
                ELSE data.organic
    IN  SubSeq(kept, 1, Min(TopN, Len(kept)))

\* urls_to_scrape of main: app.py drops links on social domains, lg.py does not.
UrlsToScrape(e, data) ==
    LET top == SubSeq(data.organic, 1, Min(TopN, Len(data.organic)))
    IN  IF e = "app" THEN SelectSeq(top, LAMBDA l : ~IsSocial(l)) ELSE top

----------------------------------------------------------------------------
(* The run *)

EmptyDictOfAspects == [a \in {} |-> NoneStr]

Init ==
    /\ entry \in {"app", "cli"}
    /\ pc = "serp"
    /\ attempt = 0
    /\ serp_data = NoneData
    /\ urls = <<>>
    /\ idx = 1
    /\ scraped = <<>>
    /\ aspect = 1
    /\ analysis = EmptyDictOfAspects
    /\ outline = <<>>
    /\ shown = <<>>
    /\ saved = FALSE
    /\ result = "running"
    /\ error = ""
    /\ exc = ""
    /\ trace = <<>>

\* One iteration of the retry loop of get_search_results; after the last one
\* the function returns.
GetSearchResults ==
    /\ pc = "serp"
    /\ \E out \in SerpOutcomes :
         LET call == Ev("serp", 0, attempt, out.kind)
             more == (attempt + 1) \in RetryRange(SerpMaxRetries)
         IN  IF out.kind = "200"
             THEN /\ serp_data' = out.json
                  /\ trace' = Append(trace, call)
                  /\ pc' = "serp_returned"
                  /\ attempt' = attempt
             ELSE IF SerpReturnsInLoop(out.kind, attempt) \/ ~more
             THEN /\ serp_data' = SerpFailureValue
                  /\ trace' = Append(trace, call) \o SerpAfterFailure(out.kind, attempt)
                  /\ pc' = "serp_returned"
                  /\ attempt' = attempt
             ELSE /\ serp_data' = serp_data
                  /\ trace' = Append(trace, call) \o SerpAfterFailure(out.kind, attempt)
                  /\ pc' = "serp"
                  /\ attempt' = attempt + 1
    /\ UNCHANGED <<entry, urls, idx, scraped, aspect, analysis, outline, shown,
                   saved, result, error, exc>>

\* main, from the return of get_search_results to the call of
\* scrape_competitor_content: the `if not serp_data` check, the analyzer set-up
\* and urls_to_scrape.
CheckSerpData ==
    /\ pc = "serp_returned"
    /\ IF ~Truthy(serp_data)
       THEN IF entry = "app"
            THEN /\ error' = "Failed to fetch SERP data"
                 /\ result' = "failure"
                 /\ pc' = "done"
                 /\ UNCHANGED <<exc, urls, idx, attempt>>
            ELSE /\ exc' = "Failed to fetch SERP data"
                 /\ pc' = "except"
                 /\ UNCHANGED <<error, result, urls, idx, attempt>>
       ELSE /\ urls' = UrlsToScrape(entry, serp_data)
            /\ idx' = 1
            /\ attempt' = 0
            /\ pc' = "scrape"
            /\ UNCHANGED <<error, result, exc>>
    /\ UNCHANGED <<entry, serp_data, scraped, aspect, analysis, outline, shown,
                   saved, trace>>

\* One iteration of the retry loop of scrape_competitor_content for urls[idx].
\* An entry carries its URL; pos records the input position it was made for.
ScrapeCompetitorContent ==
    /\ pc = "scrape"
    /\ idx <= Len(urls)
    /\ \E out \in ScrapeOutcomes :
         LET more == (attempt + 1) \in RetryRange(ScrapeMaxRetries)
         IN  IF out = "ok"
             THEN /\ scraped' = AppendEntry(scraped, [url |-> urls[idx], pos |-> idx])
                  /\ trace' = trace \o ScrapeSuccess(idx, attempt)
                  /\ idx' = NextUrl(idx, Len(urls), FALSE)
                  /\ attempt' = 0
             ELSE /\ scraped' = scraped
                  /\ trace' = Append(trace, Ev("scrape", idx, attempt, "error"))
                              \o ScrapeAfterFailure(attempt)
                  /\ IF more
                     THEN /\ idx' = idx
                          /\ attempt' = attempt + 1
                     ELSE /\ idx' = NextUrl(idx, Len(urls), TRUE)
                          /\ attempt' = 0
    /\ UNCHANGED <<entry, pc, serp_data, urls, aspect, analysis, outline, shown,
                   saved, result, error, exc>>

\* The URL loop is over: scrape_competitor_content returns scraped_content.
ScrapeReturn ==
    /\ pc = "scrape"
    /\ idx > Len(urls)
    /\ pc' = "context"
    /\ UNCHANGED <<entry, attempt, serp_data, urls, idx, scraped, aspect, analysis,
                   outline, shown, saved, result, error, exc, trace>>

\* generate_enhanced_outline -> analyze_with_llm -> prepare_llm_context.
PrepareLlmContext ==
    /\ pc = "context"
    /\ trace' = Append(trace, Ev("context", 0, 0, ""))
    /\ aspect' = 1
    /\ analysis' = EmptyDictOfAspects
    /\ pc' = IF Len(Prompts) = 0 THEN "format" ELSE "llm"
    /\ UNCHANGED <<entry, attempt, serp_data, urls, idx, scraped, outline, shown,
                   saved, result, error, exc>>

\* The value get_llm_analysis returns for one outcome of the provider call.
GetLlmAnalysisValue(out) == IF out.kind = "exception" THEN Str(<<>>) ELSE out.content

\* One iteration of the loop of analyze_with_llm: get_llm_analysis for the
\* aspect, then time.sleep(1).
GetLlmAnalysis(texts) ==
    /\ pc = "llm"
    /\ aspect <= Len(Prompts)
    /\ \E out \in LlmOutcomes(texts) :
         /\ analysis' = [a \in DOMAIN analysis \cup {Prompts[aspect]} |->
                            IF a = Prompts[aspect] THEN GetLlmAnalysisValue(out)
                            ELSE analysis[a]]
         /\ trace' = trace \o <<Ev("llm", aspect, 0, out.kind), Sleep("1")>>
    /\ aspect' = aspect + 1
    /\ pc' = IF aspect = Len(Prompts) THEN "format" ELSE "llm"
    /\ UNCHANGED <<entry, attempt, serp_data, urls, idx, scraped, outline, shown,
                   saved, result, error, exc>>

\* generate_enhanced_outline -> format_llm_outline.
FormatOutline ==
    /\ pc = "format"
    /\ LET r == FormatLlmOutline(analysis)
       IN  IF r.raised
           THEN /\ exc' = "Failed to generate outline"
                /\ pc' = "except"
                /\ outline' = outline
           ELSE /\ exc' = exc
                /\ pc' = IF entry = "app" THEN "display" ELSE "save"
                /\ outline' = r.value
    /\ trace' = Append(trace, Ev("format", 0, 0, ""))
    /\ UNCHANGED <<entry, attempt, serp_data, urls, idx, scraped, aspect, analysis,
                   shown, saved, result, error>>

\* app.py main, after generate_enhanced_outline: the outline is displayed when
\* it is not empty.
DisplayEnhancedOutline ==
    /\ pc = "display"
    /\ IF outline # <<>>
       THEN /\ shown' = DisplaySections(outline)
            /\ trace' = Append(trace, Ev("display", 0, 0, ""))
            /\ result' = "document"
            /\ error' = error
       ELSE /\ shown' = shown
            /\ trace' = trace
            /\ result' = "failure"
            /\ error' = "Failed to generate enhanced outline."
    /\ pc' = "done"
    /\ UNCHANGED <<entry, attempt, serp_data, urls, idx, scraped, aspect, analysis,
                   outline, saved, exc>>

\* lg.py main, after generate_enhanced_outline: the outline is written to the file.
SaveOutline ==
    /\ pc = "save"
    /\ saved' = TRUE
    /\ result' = "document"
    /\ trace' = Append(trace, Ev("save", 0, 0, ""))
    /\ pc' = "done"
    /\ UNCHANGED <<entry, attempt, serp_data, urls, idx, scraped, aspect, analysis,
                   outline, shown, error, exc>>

\* The `except Exception` handler of main.
MainExcept ==
    /\ pc = "except"
    /\ error' = exc
    /\ exc' = ""
    /\ result' = "failure"
    /\ pc' = "done"
    /\ UNCHANGED <<entry, attempt, serp_data, urls, idx, scraped, aspect, analysis,
                   outline, shown, saved, trace>>

Next ==
    \/ GetSearchResults
    \/ CheckSerpData
    \/ ScrapeCompetitorContent
    \/ ScrapeReturn
    \/ PrepareLlmContext
    \/ GetLlmAnalysis(PipelineTexts)
    \/ FormatOutline
    \/ DisplayEnhancedOutline
    \/ SaveOutline
    \/ MainExcept

Spec == Init /\ [][Next]_vars

\* The Streamlit run at the call of the LLM, after a SERP response without
\* organic results: the parser is then run on every LLM response of at most
\* MaxTextLen chunks.
InitParse ==
    /\ entry = "app"
    /\ pc = "llm"
    /\ attempt = 0
    /\ serp_data = Dict(<<>>)
    /\ urls = <<>>
    /\ idx = 1
    /\ scraped = <<>>
    /\ aspect = 1
    /\ analysis = EmptyDictOfAspects
    /\ outline = <<>>
    /\ shown = <<>>
    /\ saved = FALSE
    /\ result = "running"
    /\ error = ""
    /\ exc = ""
    /\ trace = <<Ev("serp", 0, 0, "200"), Ev("context", 0, 0, "")>>

NextParse ==
    \/ GetLlmAnalysis(Texts(MaxTextLen))
    \/ FormatOutline
    \/ DisplayEnhancedOutline
    \/ MainExcept

SpecParse == InitParse /\ [][NextParse]_vars

\* A run at the return of get_search_results with a SERP response of up to
\* MaxRank ranked organic results, up to the return of
\* scrape_competitor_content.
InitUrls ==
    /\ entry \in {"app", "cli"}
    /\ pc = "serp_returned"
    /\ attempt = 0
    /\ serp_data \in RankedBodies
    /\ urls = <<>>
    /\ idx = 1
    /\ scraped = <<>>
    /\ aspect = 1
    /\ analysis = EmptyDictOfAspects
    /\ outline = <<>>
    /\ shown = <<>>
    /\ saved = FALSE
    /\ result = "running"
    /\ error = ""
    /\ exc = ""
    /\ trace = <<Ev("serp", 0, 0, "200")>>

NextUrls ==
    \/ CheckSerpData
    \/ ScrapeCompetitorContent
    \/ ScrapeReturn

SpecUrls == InitUrls /\ [][NextUrls]_vars

----------------------------------------------------------------------------
(* Reading the trace *)

Calls(op) == SelectSeq(trace, LAMBDA e : e.op = op)

SerpCalls == Calls("serp")

LlmCalls == Calls("llm")

\* The scrape_url calls made for the URL at position i of urls.
ScrapeCalls(i) == SelectSeq(trace, LAMBDA e : e.op = "scrape" /\ e.idx = i)

HasOk(calls) == \E k \in 1..Len(calls) : calls[k].res \in {"ok", "200"}

\* get_search_results has returned.
SerpReturned == pc # "serp"

\* The retry loop for the URL at position i is over.
UrlResolved(i) ==
    /\ i \in 1..Len(urls)
    /\ pc \notin {"serp", "serp_returned"}
    /\ (pc = "scrape" => idx > i)

\* scrape_competitor_content has returned.
ScrapeReturned == pc \in {"context", "llm", "format", "display", "save", "done"}
                  \/ (pc = "except" /\ Len(Calls("context")) > 0)

\* The entries of scraped_content produced for the URL at position i.
EntriesOf(i) == SelectSeq(scraped, LAMBDA c : c.pos = i)

Urls(list) == [k \in 1..Len(list) |-> list[k].url]

RECURSIVE IsSubsequence(_, _)
IsSubsequence(s, t) ==
    IF s = <<>> THEN TRUE
    ELSE IF t = <<>> THEN FALSE
    ELSE IF Head(s) = Head(t) THEN IsSubsequence(Tail(s), Tail(t))
    ELSE IsSubsequence(s, Tail(t))

----------------------------------------------------------------------------
(* Claims *)

\* The SERP provider was called 3 times and never answered 200.
AllSerpAttemptsFailed == Len(SerpCalls) = 3 /\ ~HasOk(SerpCalls)

\* C1: when the SERP provider fails on all 3 attempts (non-success status or
\* network error, in any mix), no scrape call and no LLM call is ever made, the
\* run can only go on to report the failure, and it ends as an explicit failure.
C1_SerpExhaustedFailsWithoutCalls ==
    AllSerpAttemptsFailed =>
        /\ Len(Calls("scrape")) = 0
        /\ Len(LlmCalls) = 0
        /\ pc \in {"serp_returned", "except", "done"}
        /\ (pc = "done" => result = "failure" /\ error = "Failed to fetch SERP data")

\* A finished run whose three SERP attempts failed, by status and by exception.
C1_Witness ==
    /\ pc = "done"
    /\ AllSerpAttemptsFailed
    /\ \E j, k \in 1..3 : SerpCalls[j].res = "status" /\ SerpCalls[k].res = "exception"
    /\ result = "failure"

\* C2: against a provider that keeps failing, get_search_results calls the SERP
\* provider exactly 3 times before it returns the failure value, and
\* scrape_competitor_content calls the scrape provider exactly 3 times for a URL
\* before it omits the URL, whatever the kinds of failure.
C2_ExactlyThreeAttempts ==
    /\ (SerpReturned /\ ~HasOk(SerpCalls)) =>
           /\ Len(SerpCalls) = 3
           /\ serp_data = NoneData
    /\ \A i \in 1..Len(urls) :
           (UrlResolved(i) /\ ~HasOk(ScrapeCalls(i))) =>
               /\ Len(ScrapeCalls(i)) = 3
               /\ EntriesOf(i) = <<>>

\* A SERP query answered at the third attempt after a status failure and a
\* network error, and a URL omitted after three failed scrapes.
C2_Witness ==
    /\ pc = "done"
    /\ Len(SerpCalls) = 3
    /\ SerpCalls[1].res = "status"
    /\ SerpCalls[2].res = "exception"
    /\ \E i \in 1..Len(urls) :
           /\ Len(ScrapeCalls(i)) = 3
           /\ ~HasOk(ScrapeCalls(i))
           /\ EntriesOf(i) = <<>>

\* C3: once scrape_competitor_content has returned, every input URL was
\* attempted (at least once, at most 3 times) whatever happened to the others,
\* and it has an entry, exactly one and with its own URL, if and only if one of
\* its attempts succeeded.
C3_EntryIffAnAttemptSucceeded ==
    ScrapeReturned =>
        \A i \in 1..Len(urls) :
            /\ Len(ScrapeCalls(i)) \in 1..3
            /\ (EntriesOf(i) # <<>>) <=> HasOk(ScrapeCalls(i))
            /\ Len(EntriesOf(i)) <= 1
            /\ \A k \in 1..Len(EntriesOf(i)) : EntriesOf(i)[k].url = urls[i]

\* The first URL used up its retries and has no entry, the second one was
\* scraped after a retry and has its entry.
C3_Witness ==
    /\ pc = "done"
    /\ Len(urls) = 2
    /\ Len(ScrapeCalls(1)) = 3
    /\ ~HasOk(ScrapeCalls(1))
    /\ Len(ScrapeCalls(2)) = 2
    /\ Urls(scraped) = <<urls[2]>>

\* C4: the list scrape_competitor_content builds is never longer than the
\* input, and the URLs of its entries are a subsequence of the input list.
C4_OutputIsSubsequenceOfInput ==
    /\ Len(scraped) <= Len(urls)
    /\ IsSubsequence(Urls(scraped), urls)

\* Two different URLs, both scraped.
C4_Witness ==
    /\ pc = "done"
    /\ Len(urls) = 2
    /\ urls[1] # urls[2]
    /\ Len(scraped) = 2

\* The aspect "outline_structure" came back empty from get_llm_analysis.
OutlineStructureEmpty ==
    /\ "outline_structure" \in DOMAIN analysis
    /\ analysis["outline_structure"] = Str(<<>>)

Contains(text, tok) == \E k \in 1..Len(text) : text[k] = tok

\* C5 (as claimed): when the LLM call for "outline_structure" yields an empty
\* result, the run ends with a document that contains the "No outline structure
\* generated" signal.
C5_EmptyAspectYieldsSignal ==
    (pc = "done" /\ OutlineStructureEmpty) =>
        /\ result = "document"
        /\ Contains(outline, "No outline structure generated")

\* Some action of the run has its guard true.
CanStep ==
    \/ pc \in {"serp", "serp_returned", "context", "format", "display", "save", "except"}
    \/ (pc = "scrape" /\ (idx <= Len(urls) \/ idx > Len(urls)))
    \/ (pc = "llm" /\ aspect <= Len(Prompts))

\* C6: a run ends in exactly one of two ways, with a non-empty outline or with
\* an explicit failure message; until then it can take a step, and an
\* exception only ever travels to main's handler.
C6_DocumentOrExplicitFailure ==
    /\ pc = "done" =>
           \/ (result = "document" /\ outline # <<>> /\ error = "")
           \/ (result = "failure" /\ error # "")
    /\ pc # "done" => (result = "running" /\ CanStep)
    /\ exc # "" => pc = "except"

\* A run whose LLM call failed and that still ended with a non-empty outline.
C6_Witness ==
    /\ pc = "done"
    /\ result = "document"
    /\ OutlineStructureEmpty
    /\ Len(LlmCalls) = 1
    /\ LlmCalls[1].res = "exception"

\* The trace without the sleeps.
Steps == SelectSeq(trace, LAMBDA e : e.op # "sleep")

StageOf(e) ==
    CASE e.op = "serp" -> 1
      [] e.op \in {"scrape", "analyze"} -> 2
      [] e.op = "context" -> 3
      [] e.op = "llm" -> 4
      [] e.op = "format" -> 5
      [] OTHER -> 6

\* C7: the stages occur in pipeline order (SERP, scrape with analysis, context,
\* LLM, formatting, display), a page is analysed right after its successful
\* scrape and only then, the attempts for one URL all come before the first
\* attempt for the next, and the context is built only when every URL's retry
\* loop is over.
C7_StagesInOrder ==
    LET S == Steps
    IN  /\ \A j, k \in 1..Len(S) :
               j < k =>
                   /\ StageOf(S[j]) <= StageOf(S[k])
                   /\ (StageOf(S[j]) = 2 /\ StageOf(S[k]) = 2) => S[j].idx <= S[k].idx
        /\ \A j \in 1..Len(S) :
               /\ (S[j].op = "scrape" /\ S[j].res = "ok") =>
                      /\ j < Len(S)
                      /\ S[j + 1].op = "analyze"
                      /\ S[j + 1].idx = S[j].idx
               /\ S[j].op = "analyze" =>
                      /\ j > 1
                      /\ S[j - 1].op = "scrape"
                      /\ S[j - 1].res = "ok"
                      /\ S[j - 1].idx = S[j].idx
        /\ Len(Calls("context")) > 0 =>
               \A i \in 1..Len(urls) :
                   HasOk(ScrapeCalls(i)) \/ Len(ScrapeCalls(i)) = 3

\* A displayed run with two URLs, the first scraped at its second attempt.
C7_Witness ==
    /\ pc = "done"
    /\ Len(Calls("display")) = 1
    /\ Len(urls) = 2
    /\ Len(ScrapeCalls(1)) = 2
    /\ HasOk(ScrapeCalls(1))
    /\ HasOk(ScrapeCalls(2))

\* analyze_with_llm has returned.
SynthesisDone ==
    Len(Calls("context")) > 0 /\ pc \in {"format", "display", "save", "except", "done"}

\* C8: the LLM provider is never called twice in a run, and exactly once when
\* analyze_with_llm has returned; a call that raises yields the empty string
\* for the aspect at once.
C8_SingleLlmCall ==
    /\ Len(LlmCalls) <= 1
    /\ SynthesisDone =>
           /\ Len(LlmCalls) = 1
           /\ DOMAIN analysis = {"outline_structure"}
           /\ LlmCalls[1].res = "exception" => OutlineStructureEmpty

\* A run whose only LLM call raised and that went on to the degraded outline.
C8_Witness ==
    /\ pc = "done"
    /\ Len(LlmCalls) = 1
    /\ LlmCalls[1].res = "exception"
    /\ outline = <<"Meta Information", ":", "\n", "\n", "END">>

\* C9 (as claimed): every SERP attempt that is followed by another one is
\* followed at once by a 2-second sleep, whether it failed by status or by
\* network error, and no sleep follows the third attempt.
C9_TwoSecondsBetweenSerpAttempts ==
    \A k \in 1..Len(trace) :
        trace[k].op = "serp" =>
            /\ (\E m \in (k + 1)..Len(trace) : trace[m].op = "serp") =>
                   trace[k + 1] = Sleep("2")
            /\ (trace[k].att = 2 /\ k < Len(trace)) => trace[k + 1].op # "sleep"

----------------------------------------------------------------------------
(* Claims about the section parser *)

\* display_enhanced_outline has rendered the outline.
Displayed == pc = "done" /\ entry = "app" /\ result = "document"

ShownNames == {shown[k].name : k \in 1..Len(shown)}

\* The token sequence pat occurs in text, letter case aside.
Occurs(pat, text) == \E p \in 0..Len(text) : MatchAt(pat, text, p)

\* Offset of the first occurrence of pat in text at or after offset from, -1
\* when there is none.
FirstAt(pat, text, from) ==
    IF \E p \in from..Len(text) : MatchAt(pat, text, p)
    THEN CHOOSE p \in from..Len(text) :
             /\ MatchAt(pat, text, p)
             /\ \A q \in from..(p - 1) : ~MatchAt(pat, text, q)
    ELSE -1

\* Where a delimiter is found from an offset on: its exact form when that
\* occurs, else the phrase without the colon.  <<start, end>>, <<-1, -1>>
\* when neither occurs.
Found(delim, text, from) ==
    LET phrase == <<delim[1]>>
    IN  IF FirstAt(delim, text, from) >= 0
        THEN <<FirstAt(delim, text, from), FirstAt(delim, text, from) + Len(delim)>>
        ELSE IF FirstAt(phrase, text, from) >= 0
        THEN <<FirstAt(phrase, text, from), FirstAt(phrase, text, from) + 1>>
        ELSE <<-1, -1>>

\* The start delimiter of section sec is found, and a token that is not
\* whitespace lies between it and the end delimiter found after it (the end of
\* the text when the section has no end delimiter or it is not found).
HasBody(sec, text) ==
    LET st == Found(sec.start, text, 0)
        en == IF sec.end = <<>> THEN <<-1, -1>> ELSE Found(sec.end, text, st[2])
        stop == IF en[1] < 0 THEN Len(text) ELSE en[1]
    IN  /\ st[1] >= 0
        /\ \E k \in (st[2] + 1)..stop : ~IsSpace(text[k])

\* C10 (as claimed): for a displayed document in which "FAQ:" does not occur,
\* no "FAQ" section is produced and every other section whose start delimiter
\* occurs is produced.
C10_NoFaqDelimiterAsClaimed ==
    (Displayed /\ ~Occurs(<<"FAQ", ":">>, outline)) =>
        /\ "FAQ" \notin ShownNames
        /\ \A i \in 1..Len(Sections) :
               (Sections[i].name # "FAQ" /\ Occurs(Sections[i].start, outline))
                   => Sections[i].name \in ShownNames

\* C10 (amended): for a displayed document in which the phrase "FAQ" does not
\* occur, with or without its colon and in any letter case, the display ends
\* without an error, no "FAQ" section is produced, and every other section
\* whose start delimiter is found and that has text other than whitespace up
\* to its end delimiter is produced.
C10_NoFaqPhraseOmitsFaqOnly ==
    (Displayed /\ ~Occurs(<<"FAQ">>, outline)) =>
        /\ error = ""
        /\ exc = ""
        /\ "FAQ" \notin ShownNames
        /\ \A i \in 1..Len(Sections) :
               (Sections[i].name # "FAQ" /\ HasBody(Sections[i], outline))
                   => Sections[i].name \in ShownNames

\* A displayed document without "FAQ" whose "Section Breakdown:" is followed
\* by text: the section runs to the end of the document.
C10_Witness ==
    /\ Displayed
    /\ ~Occurs(<<"FAQ">>, outline)
    /\ Occurs(<<"Section Breakdown", ":", "x">>, outline)
    /\ "Section Breakdown" \in ShownNames
    /\ "FAQ" \notin ShownNames

\* Where the body of section sec lies in text: from the end of the start
\* delimiter found to the start of the end delimiter found after it, or to the
\* end of the text when the section has no end delimiter or it is not found.
\* <<from, to>>; from = -1 when the start delimiter is not found.
BodyBounds(sec, text) ==
    LET st == Found(sec.start, text, 0)
        en == IF sec.end = <<>> THEN <<-1, -1>> ELSE Found(sec.end, text, st[2])
    IN  IF st[1] < 0 THEN <<-1, -1>>
        ELSE <<st[2], IF en[1] < 0 THEN Len(text) ELSE en[1]>>

\* The entries of shown under one section name.
ShownAs(name) == SelectSeq(shown, LAMBDA e : e.name = name)

UberTitle == "Uber Clone App | Fast Rides"

\* The first "Meta title:" of text is followed by " Uber Clone App | Fast
\* Rides" and then, after whitespace at most, by the "Meta description:"
\* delimiter.
UberTitleLine(text) ==
    LET b == BodyBounds(Sections[1], text)
    IN  /\ b[1] >= 0
        /\ MatchAt(<<"Meta title", ":", " ", UberTitle>>, text, b[1] - 2)
        /\ b[2] < Len(text)
        /\ \A k \in (b[1] + 3)..b[2] : IsSpace(text[k])

\* C11: for a displayed document and every section whose start delimiter is
\* found, the body produced is the text from the end of the start delimiter to
\* the start of the end delimiter found after it (to the end of the document
\* when there is no end delimiter or it is not found), with the whitespace at
\* both ends removed; a "Meta title: Uber Clone App | Fast Rides" line followed
\* by "Meta description:" gives the "Meta Title" body "Uber Clone App | Fast
\* Rides" exactly.
C11_BodyIsTextBetweenDelimiters ==
    Displayed =>
        /\ \A i \in 1..Len(Sections) :
               LET b == BodyBounds(Sections[i], outline)
                   body == Strip(Slice(outline, b[1], b[2]))
               IN  (b[1] >= 0 /\ body # <<>>) =>
                       ShownAs(Sections[i].name) =
                           <<[name |-> Sections[i].name, body |-> body]>>
        /\ UberTitleLine(outline) =>
               ShownAs("Meta Title") = <<[name |-> "Meta Title", body |-> <<UberTitle>>]>>

\* A displayed document with the "Meta title: Uber Clone App | Fast Rides"
\* line, a blank and the "Meta description:" delimiter.
C11_Witness ==
    /\ Displayed
    /\ UberTitleLine(outline)
    /\ Occurs(<<UberTitle, " ", "Meta description", ":">>, outline)
    /\ ShownAs("Meta Title") = <<[name |-> "Meta Title", body |-> <<UberTitle>>]>>

\* The offset after the whitespace that follows offset pos of text.
RECURSIVE SkipSpaces(_, _)
SkipSpaces(text, pos) ==
    IF pos < Len(text) /\ IsSpace(text[pos + 1]) THEN SkipSpaces(text, pos + 1) ELSE pos

\* The offset after the whitespace, one optional colon and the whitespace that
\* follow offset pos of text.
SkipColon(text, pos) ==
    LET a == SkipSpaces(text, pos)
    IN  IF a < Len(text) /\ text[a + 1] = ":" THEN SkipSpaces(text, a + 1) ELSE a

\* C12 (as claimed): whichever form the start delimiter is found in (any letter
\* case, with its colon, without it, or with whitespace before the colon), the
\* body produced leaves out the colon and the whitespace around it: it is the
\* stripped text from after them to the end delimiter.
C12_ColonExcludedInEveryForm ==
    Displayed =>
        \A i \in 1..Len(Sections) :
            LET st == Found(Sections[i].start, outline, 0)
                exact == FirstAt(Sections[i].start, outline, 0) >= 0
                from == IF exact THEN st[2] ELSE SkipColon(outline, st[2])
                b == BodyBounds(Sections[i], outline)
                body == Strip(Slice(outline, from, b[2]))
            IN  (st[1] >= 0 /\ from <= b[2] /\ body # <<>>) =>
                    ShownAs(Sections[i].name) =
                        <<[name |-> Sections[i].name, body |-> body]>>

\* The position of a section name in the definition order.
SectionIndex(name) == CHOOSE i \in 1..Len(Sections) : Sections[i].name = name

\* C13: the sections produced for a displayed document are in the definition
\* order (Meta Title, Meta Description, Slug, H1, Introduction, Section
\* Breakdown, FAQ, Writing Guidelines, Landing Page Format, Justification),
\* each at most once, wherever their delimiters lie in the document and
\* whether or not "Section Breakdown" is among them.
C13_SectionsInDefinitionOrder ==
    Displayed =>
        /\ \A k \in 1..Len(shown) : \E i \in 1..Len(Sections) : Sections[i].name = shown[k].name
        /\ \A j, k \in 1..Len(shown) :
               j < k => SectionIndex(shown[j].name) < SectionIndex(shown[k].name)

\* "Justification:" lies before "Section Breakdown:" in the document, and both
\* are produced, "Section Breakdown" first.
C13_Witness ==
    /\ Displayed
    /\ FirstAt(<<"Justification", ":">>, outline, 0) >= 0
    /\ FirstAt(<<"Justification", ":">>, outline, 0)
           < FirstAt(<<"Section Breakdown", ":">>, outline, 0)
    /\ Len(shown) = 2
    /\ shown[1].name = "Section Breakdown"
    /\ shown[2].name = "Justification"

\* The start delimiter of the section is located and the text from it to the
\* end delimiter (or the end of the document) is empty or only whitespace.
BlankBody(sec, text) ==
    LET b == BodyBounds(sec, text)
    IN  /\ b[1] >= 0
        /\ \A k \in (b[1] + 1)..b[2] : IsSpace(text[k])

\* C17: a section whose start delimiter is located but whose text up to the
\* end delimiter is empty or whitespace is omitted, and every section that is
\* produced has a non-empty body without leading or trailing whitespace.
C17_ProducedBodiesNonEmptyAndTrimmed ==
    Displayed =>
        /\ \A i \in 1..Len(Sections) :
               BlankBody(Sections[i], outline) => Sections[i].name \notin ShownNames
        /\ \A k \in 1..Len(shown) :
               /\ shown[k].body # <<>>
               /\ ~IsSpace(shown[k].body[1])
               /\ ~IsSpace(shown[k].body[Len(shown[k].body)])

\* "Meta title:" is followed by whitespace only up to "Meta description:";
\* Meta Title is omitted while Meta Description is produced.
C17_Witness ==
    /\ Displayed
    /\ BlankBody(Sections[1], outline)
    /\ LET b == BodyBounds(Sections[1], outline) IN b[1] < b[2]
    /\ "Meta Title" \notin ShownNames
    /\ "Meta Description" \in ShownNames

\* format_llm_outline has returned a document.
Formatted == outline # <<>>

\* The body of the last section, "Justification", of a document.
JustificationBody(text) ==
    LET st == Found(Sections[Len(Sections)].start, text, 0)
    IN  Strip(Slice(text, st[2], Len(text)))

\* C18: every document format_llm_outline returns begins with
\* "Meta Information:", ends with "END" and contains no asterisk; and when
\* such a document is displayed and "Justification:" is matched in it, the
\* Justification body is the trimmed text from the end of that match to the
\* end of the document, so it ends with "END".
C18_EnvelopeAndJustificationToEnd ==
    /\ Formatted =>
           /\ Len(outline) >= 3
           /\ SubSeq(outline, 1, 2) = <<"Meta Information", ":">>
           /\ outline[Len(outline)] = "END"
           /\ ~Contains(outline, "*")
    /\ (Displayed /\ Found(Sections[Len(Sections)].start, outline, 0)[1] >= 0) =>
           /\ ShownAs("Justification")
                  = <<[name |-> "Justification", body |-> JustificationBody(outline)]>>
           /\ LET body == JustificationBody(outline) IN body[Len(body)] = "END"

\* The LLM text carried an asterisk and "Justification:"; the displayed
\* document has no asterisk and its Justification body ends with "END".
C18_Witness ==
    /\ Displayed
    /\ analysis["outline_structure"].kind = "str"
    /\ Contains(analysis["outline_structure"].text, "*")
    /\ Occurs(<<"Justification", ":">>, outline)
    /\ ~Contains(outline, "*")
    /\ \E k \in 1..Len(shown) :
           /\ shown[k].name = "Justification"
           /\ Len(shown[k].body) >= 2
           /\ shown[k].body[Len(shown[k].body)] = "END"

-----------------------------------------------------------------------------
(* Claims about delays and retries *)

\* The rate-limiting sleeps of analyze_with_llm.
RateLimitSleeps == SelectSeq(trace, LAMBDA e : e = Sleep("1"))

\* C15 (as claimed): every 1-second rate-limiting delay lies between two LLM
\* calls, so once analyze_with_llm has returned there is one delay fewer than
\* LLM calls, and none in a run with the single aspect "outline_structure".
C15_DelaysOnlyBetweenLlmCalls ==
    SynthesisDone =>
        /\ Len(RateLimitSleeps) = Len(LlmCalls) - 1
        /\ \A k \in 1..Len(trace) :
               trace[k] = Sleep("1") =>
                   /\ \E j \in 1..(k - 1) : trace[j].op = "llm"
                   /\ \E m \in (k + 1)..Len(trace) : trace[m].op = "llm"

-----------------------------------------------------------------------------
(* Claims about the URLs that are scraped *)

\* urls_to_scrape has been computed and handed to scrape_competitor_content.
UrlsChosen == pc \notin {"serp", "serp_returned"} /\ Truthy(serp_data)

\* The links of the organic results at ranks 1..5.
FirstFive == SubSeq(serp_data.organic, 1, Min(5, Len(serp_data.organic)))

\* The URLs scrape_url was called with.
ScrapedUrls == {urls[trace[k].idx] : k \in {m \in 1..Len(trace) : trace[m].op = "scrape"}}

\* C14: the URLs passed to the scraper are links of the first 5 organic
\* results, in rank order, at most 5 of them; the link of a result at rank 6
\* or later that is not also among the first 5 is never scraped, also when the
\* social-domain filter has excluded some of the first 5.
C14_OnlyFirstFiveScraped ==
    UrlsChosen =>
        /\ IsSubsequence(urls, FirstFive)
        /\ Len(urls) <= 5
        /\ \A k \in 1..Len(trace) : trace[k].op = "scrape" => trace[k].idx \in 1..Len(urls)
        /\ \A r \in 6..Len(serp_data.organic) :
               (\A q \in 1..5 : serp_data.organic[q] # serp_data.organic[r])
                   => serp_data.organic[r] \notin ScrapedUrls
        /\ entry = "app" => \A k \in 1..Len(urls) : ~IsSocial(urls[k])

\* The Streamlit run got 6 organic results, the second one on a social
\* domain and the sixth one not: the four others of the first 5 were scraped
\* and the sixth was not.
C14_Witness ==
    /\ entry = "app"
    /\ pc = "context"
    /\ Len(serp_data.organic) = 6
    /\ IsSocial(serp_data.organic[2])
    /\ serp_data.organic[6] = "r6.com"
    /\ ScrapedUrls = {"r1.com", "r3.com", "r4.com", "r5.com"}
    /\ urls = <<"r1.com", "r3.com", "r4.com", "r5.com">>

====
